---- MODULE Spec2Model ----
(***************************************************************************)
(* Directed segments (Seg, SegRef, SegmentRef, SegRefMut) over the ribs of *)
(* a GeoIndex: src/prismatic/src/indexes/geo_index/seg.rs.                 *)
(*                                                                         *)
(* Scalars are modelled as exact rationals <<numerator, denominator>> in   *)
(* lowest terms with a positive denominator.  Square roots are taken only  *)
(* of rationals that are perfect squares; the geometric specifications     *)
(* draw their segments from those whose length is rational.                *)
(***************************************************************************)
EXTENDS Integers, Sequences, FiniteSets

VARIABLES
    ribs,          \* GeoIndex.ribs: BTreeMap<RibId, Rib>, a function RibId -> <<p0, p1>>
    overwritten,   \* history: the entry of ribs replaced by the last index mutation
    seg,           \* the Seg value held by the caller
    segRefs,       \* the live SegRef values (shared borrows of the index)
    segmentRefs,   \* the live SegmentRef values (shared borrows of the index)
    segRefMuts,    \* the SegRefMut values whose exclusive borrow is in force
    point,         \* the point the caller asks the distance of (a PtId of the grid)
    last           \* the last call: its name, its arguments and what it returned

vars == <<ribs, overwritten, seg, segRefs, segmentRefs, segRefMuts, point, last>>

----------------------------------------------------------------------------
(* Bounds of the model *)

\* rib identifiers in use: 1..MaxRibs
MaxRibs == 2
\* point identifiers the index specification uses: 1..MaxPts
MaxPts == 2
\* live references (SegRef, SegmentRef and SegRefMut together)
MaxRefs == 2
\* the vertex store of the geometric specifications is a grid of half units:
\* x and y take MaxXY + 1 values, z takes MaxZ + 1 values
MaxXY == 4
MaxZ == 1

----------------------------------------------------------------------------
(* Scalar: exact rational arithmetic *)

AbsInt(n) == IF n < 0 THEN -n ELSE n

RECURSIVE GCD(_, _)
GCD(a, b) == IF b = 0 THEN a ELSE GCD(b, a % b)

\* n/d in lowest terms, d # 0
Rat(n, d) ==
    LET g == GCD(AbsInt(n), AbsInt(d))
        s == IF d < 0 THEN -1 ELSE 1
    IN  <<s * (n \div g), s * (d \div g)>>

RZero == <<0, 1>>
ROne == <<1, 1>>

RNeg(a) == <<-a[1], a[2]>>

RAdd(a, b) ==
    LET g == GCD(a[2], b[2])
    IN  Rat(a[1] * (b[2] \div g) + b[1] * (a[2] \div g), (a[2] \div g) * b[2])

RSub(a, b) == RAdd(a, RNeg(b))

RMul(a, b) ==
    LET g1 == GCD(AbsInt(a[1]), b[2])
        g2 == GCD(AbsInt(b[1]), a[2])
    IN  Rat((a[1] \div g1) * (b[1] \div g2), (a[2] \div g2) * (b[2] \div g1))

\* 1/a, a # 0
RInv(a) == IF a[1] < 0 THEN <<-a[2], -a[1]>> ELSE <<a[2], a[1]>>

RDiv(a, b) == RMul(a, RInv(b))

RAbs(a) == <<AbsInt(a[1]), a[2]>>

RIsZero(a) == a[1] = 0

\* a/b < c/d for b, d > 0, by the continued-fraction expansions (no products)
RECURSIVE FracLt(_, _, _, _)
FracLt(a, b, c, d) ==
    LET qa == a \div b
        qc == c \div d
        ra == a % b
        rc == c % d
    IN  IF qa # qc THEN qa < qc
        ELSE IF rc = 0 THEN FALSE
        ELSE IF ra = 0 THEN TRUE
        ELSE FracLt(d, rc, b, ra)

RLt(a, b) == FracLt(a[1], a[2], b[1], b[2])

IsSquare(n) == \E k \in 0..n : k * k = n
ISqrt(n) == CHOOSE k \in 0..n : k * k = n

\* a >= 0 is the square of a rational
RHasSqrt(a) == IsSquare(a[1]) /\ IsSquare(a[2])
RSqrt(a) == <<ISqrt(a[1]), ISqrt(a[2])>>

----------------------------------------------------------------------------
(* Vector3, Vector2, Matrix2 *)

VSub(u, v) == <<RSub(u[1], v[1]), RSub(u[2], v[2]), RSub(u[3], v[3])>>
VAdd(u, v) == <<RAdd(u[1], v[1]), RAdd(u[2], v[2]), RAdd(u[3], v[3])>>
VScale(u, k) == <<RMul(u[1], k), RMul(u[2], k), RMul(u[3], k)>>
VDot(u, v) == RAdd(RAdd(RMul(u[1], v[1]), RMul(u[2], v[2])), RMul(u[3], v[3]))
VMagSq(u) == VDot(u, u)
VMag(u) == RSqrt(VMagSq(u))
VNormalize(u) == VScale(u, RInv(VMag(u)))
VCross(u, v) ==
    << RSub(RMul(u[2], v[3]), RMul(u[3], v[2])),
       RSub(RMul(u[3], v[1]), RMul(u[1], v[3])),
       RSub(RMul(u[1], v[2]), RMul(u[2], v[1])) >>

\* Matrix2 <<m11, m12, m21, m22>>
MDet(m) == RSub(RMul(m[1], m[4]), RMul(m[3], m[2]))
MTryInverse(m) ==
    LET d == MDet(m)
    IN  IF RIsZero(d) THEN <<>>
        ELSE << <<RDiv(m[4], d), RNeg(RDiv(m[2], d)),
                  RNeg(RDiv(m[3], d)), RDiv(m[1], d)>> >>
MMulV(m, b) ==
    << RAdd(RMul(m[1], b[1]), RMul(m[2], b[2])),
       RAdd(RMul(m[3], b[1]), RMul(m[4], b[2])) >>

----------------------------------------------------------------------------
(* Outcomes of a call *)

\* the call panicked: it returned nothing
Panic == <<"panic">>
\* the call returned v
Ok(v) == <<"ok", v>>
IsPanic(r) == r[1] = "panic"
IsOk(r) == r[1] = "ok"
Val(r) == r[2]

\* Option<T>
None == <<>>
Some(x) == <<x>>
IsSome(o) == Len(o) = 1
Unwrap(o) == o[1]

----------------------------------------------------------------------------
(* Identifiers and the vertex store *)

RibIds == 1..MaxRibs
PtIds == 1..MaxPts

\* a borrow of the one GeoIndex: `through` lists the SegRefMut values whose
\* field `index` it was reborrowed through, outermost first
Borrow(through) == [of |-> "index", through |-> through]

\* &index or &mut index: the index borrowed from its owner
TheIndex == Borrow(<<>>)

\* &*m.index or &mut *m.index: a reborrow through the field `index` of the
\* SegRefMut m, which is pub(super) and so nameable inside geo_index
Reborrow(m) ==
    Borrow(Append(m.index.through, [rib_id |-> m.rib_id, dir |-> m.dir]))

IsPrefix(s, t) == Len(s) <= Len(t) /\ SubSeq(t, 1, Len(s)) = s

\* the borrow b was reborrowed through the SegRefMut m, directly or not
Through(b, m) == IsPrefix(Reborrow(m).through, b.through)

GridW == MaxXY + 1
GridPtIds == 1..(GridW * GridW * (MaxZ + 1))

\* index.vertices.get_point(pt): point pt of the grid, half a unit apart,
\* x from 0, y from -1, z from 0
get_point(pt) ==
    LET i == pt - 1
    IN  << Rat(i % GridW, 2),
           RSub(Rat((i \div GridW) % GridW, 2), ROne),
           Rat(i \div (GridW * GridW), 2) >>

\* the point identifier of grid cell (ix, iy, iz)
PtAt(ix, iy, iz) == 1 + ix + GridW * iy + GridW * GridW * iz

\* a Rib is the pair <<p0, p1>> (fields .0 and .1), p0 # p1
Ribs(P) == {<<a, b>> : a \in P, b \in P} \ {<<a, a>> : a \in P}

----------------------------------------------------------------------------
(* SegmentDir *)

Fow == "Fow"
Rev == "Rev"
SegmentDir == {Fow, Rev}

\* mutant: both arms yield Rev
SegmentDir_flip_toRev(self) == Rev

SegmentDir_flip(self) ==
    CASE self = Fow -> Rev
      [] self = Rev -> Fow

----------------------------------------------------------------------------
(* Seg *)

Seg(rib_id, dir) == [rib_id |-> rib_id, dir |-> dir]

\* mutant: the direction flag is kept
Seg_flip_keep(self) == [rib_id |-> self.rib_id, dir |-> self.dir]

Seg_flip(self) == [rib_id |-> self.rib_id, dir |-> SegmentDir_flip(self.dir)]

\* ribs[&self.rib_id] panics on a missing key
Seg_to(self, ribmap) ==
    IF self.rib_id \notin DOMAIN ribmap THEN Panic
    ELSE LET rib == ribmap[self.rib_id]
         IN  CASE self.dir = Fow -> Ok(rib[2])
               [] self.dir = Rev -> Ok(rib[1])

Seg_from(self, ribmap) ==
    IF self.rib_id \notin DOMAIN ribmap THEN Panic
    ELSE LET rib == ribmap[self.rib_id]
         IN  CASE self.dir = Fow -> Ok(rib[1])
               [] self.dir = Rev -> Ok(rib[2])

Seg_to_ref(self, index) ==
    [rib_id |-> self.rib_id, dir |-> self.dir, index |-> index]

Seg_make_ref(self, index) ==
    [index |-> index, rib_id |-> self.rib_id, dir |-> self.dir]

Seg_make_mut_ref(self, index) ==
    [index |-> index, rib_id |-> self.rib_id, dir |-> self.dir]

----------------------------------------------------------------------------
(* SegRef: [rib_id, dir, index]; idx is the rib map of the borrowed index *)

\* mutant: the arms of the match are exchanged
SegRef_to_pt_swapped(self, idx) ==
    IF self.rib_id \notin DOMAIN idx THEN Panic
    ELSE LET rib == idx[self.rib_id]
         IN  CASE self.dir = Fow -> Ok(rib[1])
               [] self.dir = Rev -> Ok(rib[2])

SegRef_to_pt(self, idx) ==
    IF self.rib_id \notin DOMAIN idx THEN Panic
    ELSE LET rib == idx[self.rib_id]
         IN  CASE self.dir = Fow -> Ok(rib[2])
               [] self.dir = Rev -> Ok(rib[1])

\* mutant: the endpoints are those the rib had before the index was last written
SegRef_from_pt_stale(self, idx) ==
    LET held == IF overwritten # <<>> /\ overwritten[1] = self.rib_id
                THEN [r \in {self.rib_id} |-> overwritten[2]]
                ELSE idx
    IN  IF self.rib_id \notin DOMAIN held THEN Panic
        ELSE LET rib == held[self.rib_id]
             IN  CASE self.dir = Fow -> Ok(rib[1])
                   [] self.dir = Rev -> Ok(rib[2])

\* mutant: a missing rib yields a default point instead of a panic
SegRef_from_pt_default(self, idx) ==
    IF self.rib_id \notin DOMAIN idx THEN Ok(1)
    ELSE LET rib == idx[self.rib_id]
         IN  CASE self.dir = Fow -> Ok(rib[1])
               [] self.dir = Rev -> Ok(rib[2])

SegRef_from_pt(self, idx) ==
    IF self.rib_id \notin DOMAIN idx THEN Panic
    ELSE LET rib == idx[self.rib_id]
         IN  CASE self.dir = Fow -> Ok(rib[1])
               [] self.dir = Rev -> Ok(rib[2])

SegRef_from(self, idx) ==
    LET p == SegRef_from_pt(self, idx)
    IN  IF IsPanic(p) THEN Panic ELSE Ok(get_point(Val(p)))

SegRef_to(self, idx) ==
    LET p == SegRef_to_pt(self, idx)
    IN  IF IsPanic(p) THEN Panic ELSE Ok(get_point(Val(p)))

SegRef_dir(self, idx) ==
    LET t == SegRef_to(self, idx)
        f == SegRef_from(self, idx)
    IN  IF IsPanic(t) THEN Panic
        ELSE IF IsPanic(f) THEN Panic
        ELSE Ok(VSub(Val(t), Val(f)))

SegRef_has(self, v, idx) ==
    LET t == SegRef_to_pt(self, idx)
    IN  IF IsPanic(t) THEN Panic
        ELSE IF Val(t) = v THEN Ok(TRUE)
        ELSE LET f == SegRef_from_pt(self, idx)
             IN  IF IsPanic(f) THEN Panic ELSE Ok(Val(f) = v)

SegRef_flip(self) ==
    [rib_id |-> self.rib_id, dir |-> SegmentDir_flip(self.dir), index |-> self.index]

SegRef_seg(self) == [rib_id |-> self.rib_id, dir |-> self.dir]

SegRef_rib_id(self) == self.rib_id

SegRef_un_ref(self) == [rib_id |-> self.rib_id, dir |-> self.dir]

SegRefMut_un_ref(self) == self.rib_id

\* RibRef::magnitude of rib_id.make_ref(index): the length of the rib
RibRef_magnitude(rib_id, idx) ==
    IF rib_id \notin DOMAIN idx THEN Panic
    ELSE Ok(VMag(VSub(get_point(idx[rib_id][2]), get_point(idx[rib_id][1]))))

SegRef_magnitude(self, idx) == RibRef_magnitude(self.rib_id, idx)

----------------------------------------------------------------------------
(* SegmentRef: [to, from, index] *)

\* mutant: the endpoints are not compared
SegmentRef_new_unchecked(from, to, index) ==
    Ok([to |-> to, from |-> from, index |-> index])

SegmentRef_new(from, to, index) ==
    IF to = from THEN Panic
    ELSE Ok([to |-> to, from |-> from, index |-> index])

SegmentRef_to_pt(self) == self.to

SegmentRef_from_pt(self) == self.from

SegmentRef_from(self) == get_point(SegmentRef_from_pt(self))

SegmentRef_to(self) == get_point(SegmentRef_to_pt(self))

SegmentRef_dir(self) == VSub(SegmentRef_to(self), SegmentRef_from(self))

SegmentRef_has(self, v) == SegmentRef_to_pt(self) = v \/ SegmentRef_from_pt(self) = v

SegmentRef_flip(self) == [to |-> self.from, from |-> self.to, index |-> self.index]

\* mutant: the direction is not normalized
distance_to_pt_squared_raw(self, pt) ==
    LET v == VSub(pt, SegmentRef_from(self))
    IN  IF RIsZero(VMagSq(v)) THEN RZero
        ELSE LET dir == SegmentRef_dir(self)
                 t == VDot(v, dir)
             IN  RSub(VDot(v, v), RMul(t, t))

distance_to_pt_squared(self, pt) ==
    LET v == VSub(pt, SegmentRef_from(self))
    IN  IF RIsZero(VMagSq(v)) THEN RZero
        ELSE LET dir == VNormalize(SegmentRef_dir(self))
                 t == VDot(v, dir)
             IN  RSub(VDot(v, v), RMul(t, t))

\* S::from_value(0.001)
vertex_pulling == <<1, 1000>>

\* mutant: the off-diagonal entries have the same sign
intersection_matrix_sym(dot) == <<ROne, dot, dot, RNeg(ROne)>>

\* Matrix2::new(1, -dot, dot, -1)
intersection_matrix(dot) == <<ROne, RNeg(dot), dot, RNeg(ROne)>>

\* Ok(None), Ok(Some(<<f, g>>)), or Panic when the rib of `to` is not in idx
get_intersection_params_seg_ref(self, to, idx) ==
    IF IsPanic(SegRef_dir(to, idx)) THEN Panic
    ELSE
    LET vertex_pulling_sq == RMul(vertex_pulling, vertex_pulling)
        to_dir == Val(SegRef_dir(to, idx))
        to_from == Val(SegRef_from(to, idx))
        segment_dir == VNormalize(to_dir)
        self_dir == VNormalize(SegmentRef_dir(self))
        q == VSub(SegmentRef_from(self), to_from)
        dot == VDot(self_dir, segment_dir)
        m == intersection_matrix(dot)
        b == <<RNeg(VDot(q, self_dir)), RNeg(VDot(q, segment_dir))>>
    IN  IF RLt(RAbs(MDet(m)), vertex_pulling_sq) THEN Ok(None)
        ELSE LET mi == MTryInverse(m)
             IN  IF IsSome(mi)
                 THEN LET st == MMulV(Unwrap(mi), b)
                          p1 == VAdd(VScale(SegmentRef_dir(self), st[1]), SegmentRef_from(self))
                          p2 == VAdd(VScale(VNormalize(to_dir), st[2]), to_from)
                          dist == VSub(p1, p2)
                      IN  IF RLt(VMagSq(dist), vertex_pulling_sq)
                          THEN Ok(Some(<<st[1], RDiv(st[2], VMag(to_dir))>>))
                          ELSE Ok(None)
                 ELSE Ok(None)

----------------------------------------------------------------------------
(* The state machine: one GeoIndex, the caller's Seg, the live references *)

\* no entry of ribs has been replaced
NoRib == <<>>
\* placeholder of an absent receiver or argument
Nil == "nil"

Call(op, self, arg, res) == [op |-> op, self |-> self, arg |-> arg, res |-> res]

NumReaders == Cardinality(segRefs) + Cardinality(segmentRefs)

\* the borrows a caller can ask for: of the index itself, or (inside
\* geo_index) of the index behind the field of a SegRefMut
Borrows == {TheIndex} \cup {Reborrow(m) : m \in segRefMuts}

\* a reference reborrowed through the SegRefMut m is alive
Reborrowed(m) ==
    \/ \E r \in segRefs : Through(r.index, m)
    \/ \E s \in segmentRefs : Through(s.index, m)
    \/ \E m2 \in segRefMuts : Through(m2.index, m)

\* the shared borrow b, &'a GeoIndex<S>, can be taken: every exclusive borrow
\* in force is one that b is reborrowed through (none, for b = &index)
CanBorrowShared(b) == \A m \in segRefMuts : Through(b, m)

\* mutant: the exclusive borrow is taken like a shared one
CanBorrowMut_shared(b) == CanBorrowShared(b)

\* the exclusive borrow b, &'a mut GeoIndex<S>, can be taken: as a shared one,
\* and no reference borrowed from the same place is alive
CanBorrowMut(b) ==
    /\ CanBorrowShared(b)
    /\ \A r \in segRefs : ~ IsPrefix(b.through, r.index.through)
    /\ \A s \in segmentRefs : ~ IsPrefix(b.through, s.index.through)
    /\ \A m \in segRefMuts : ~ IsPrefix(b.through, m.index.through)

\* the SegRefMut m can be moved (un_ref takes self): nothing reborrowed
\* through it is alive
CanMove(m) == ~ Reborrowed(m)

\* the index can be written, by its owner when nothing borrows it or through
\* the innermost SegRefMut: either way no read-only reference is alive
CanWriteIndex == segRefs = {} /\ segmentRefs = {}

Init ==
    /\ ribs = <<>>
    /\ overwritten = NoRib
    /\ seg = None
    /\ segRefs = {}
    /\ segmentRefs = {}
    /\ segRefMuts = {}
    /\ point = Nil
    /\ last = Call("init", Nil, Nil, Nil)

(* Collaborators: the owners of rib storage *)

InsertRib(rid, rib) ==
    /\ CanWriteIndex
    /\ ribs' = [r \in DOMAIN ribs \cup {rid} |-> IF r = rid THEN rib ELSE ribs[r]]
    /\ overwritten' = IF rid \in DOMAIN ribs THEN <<rid, ribs[rid]>> ELSE NoRib
    /\ last' = Call("insert_rib", Nil, <<rid, rib>>, Nil)
    /\ UNCHANGED <<point, seg, segRefs, segmentRefs, segRefMuts>>

RemoveRib(rid) ==
    /\ CanWriteIndex
    /\ rid \in DOMAIN ribs
    /\ ribs' = [r \in DOMAIN ribs \ {rid} |-> ribs[r]]
    /\ overwritten' = <<rid, ribs[rid]>>
    /\ last' = Call("remove_rib", Nil, rid, Nil)
    /\ UNCHANGED <<point, seg, segRefs, segmentRefs, segRefMuts>>

\* a collaborator hands out a Seg of a rib it has registered
NewSeg(rid, d) ==
    /\ rid \in DOMAIN ribs
    /\ seg' = Some(Seg(rid, d))
    /\ last' = Call("Seg", Nil, <<rid, d>>, Seg(rid, d))
    /\ UNCHANGED <<point, ribs, overwritten, segRefs, segmentRefs, segRefMuts>>

(* Seg *)

SegFlip ==
    /\ IsSome(seg)
    /\ seg' = Some(Seg_flip(Unwrap(seg)))
    /\ last' = Call("Seg::flip", Unwrap(seg), Nil, Seg_flip(Unwrap(seg)))
    /\ UNCHANGED <<point, ribs, overwritten, segRefs, segmentRefs, segRefMuts>>

SegTo ==
    /\ IsSome(seg)
    /\ last' = Call("Seg::to", Unwrap(seg), Nil, Seg_to(Unwrap(seg), ribs))
    /\ UNCHANGED <<point, ribs, overwritten, seg, segRefs, segmentRefs, segRefMuts>>

SegFrom ==
    /\ IsSome(seg)
    /\ last' = Call("Seg::from", Unwrap(seg), Nil, Seg_from(Unwrap(seg), ribs))
    /\ UNCHANGED <<point, ribs, overwritten, seg, segRefs, segmentRefs, segRefMuts>>

SegToRef(index) ==
    /\ IsSome(seg)
    /\ CanBorrowShared(index)
    /\ LET r == Seg_to_ref(Unwrap(seg), index)
       IN  /\ Cardinality(segRefs \cup {r}) + Cardinality(segmentRefs) + Cardinality(segRefMuts) <= MaxRefs
           /\ segRefs' = segRefs \cup {r}
           /\ last' = Call("Seg::to_ref", Unwrap(seg), index, r)
    /\ UNCHANGED <<point, ribs, overwritten, seg, segmentRefs, segRefMuts>>

MakeRef(index) ==
    /\ IsSome(seg)
    /\ CanBorrowShared(index)
    /\ LET r == Seg_make_ref(Unwrap(seg), index)
       IN  /\ Cardinality(segRefs \cup {r}) + Cardinality(segmentRefs) + Cardinality(segRefMuts) <= MaxRefs
           /\ segRefs' = segRefs \cup {r}
           /\ last' = Call("Seg::make_ref", Unwrap(seg), index, r)
    /\ UNCHANGED <<point, ribs, overwritten, seg, segmentRefs, segRefMuts>>

MakeMutRef(index) ==
    /\ IsSome(seg)
    /\ CanBorrowMut(index)
    /\ NumReaders + Cardinality(segRefMuts) < MaxRefs
    /\ LET m == Seg_make_mut_ref(Unwrap(seg), index)
       IN  /\ segRefMuts' = segRefMuts \cup {m}
           /\ last' = Call("Seg::make_mut_ref", Unwrap(seg), index, m)
    /\ UNCHANGED <<point, ribs, overwritten, seg, segRefs, segmentRefs>>

(* SegRef *)

SegRefFromPt(r) ==
    /\ r \in segRefs
    /\ last' = Call("SegRef::from_pt", r, Nil, SegRef_from_pt(r, ribs))
    /\ UNCHANGED <<point, ribs, overwritten, seg, segRefs, segmentRefs, segRefMuts>>

SegRefToPt(r) ==
    /\ r \in segRefs
    /\ last' = Call("SegRef::to_pt", r, Nil, SegRef_to_pt(r, ribs))
    /\ UNCHANGED <<point, ribs, overwritten, seg, segRefs, segmentRefs, segRefMuts>>

SegRefFrom(r) ==
    /\ r \in segRefs
    /\ last' = Call("SegRef::from", r, Nil, SegRef_from(r, ribs))
    /\ UNCHANGED <<point, ribs, overwritten, seg, segRefs, segmentRefs, segRefMuts>>

SegRefTo(r) ==
    /\ r \in segRefs
    /\ last' = Call("SegRef::to", r, Nil, SegRef_to(r, ribs))
    /\ UNCHANGED <<point, ribs, overwritten, seg, segRefs, segmentRefs, segRefMuts>>

SegRefDir(r) ==
    /\ r \in segRefs
    /\ last' = Call("SegRef::dir", r, Nil, SegRef_dir(r, ribs))
    /\ UNCHANGED <<point, ribs, overwritten, seg, segRefs, segmentRefs, segRefMuts>>

SegRefHas(r, v) ==
    /\ r \in segRefs
    /\ last' = Call("SegRef::has", r, v, SegRef_has(r, v, ribs))
    /\ UNCHANGED <<point, ribs, overwritten, seg, segRefs, segmentRefs, segRefMuts>>

SegRefMagnitude(r) ==
    /\ r \in segRefs
    /\ last' = Call("SegRef::magnitude", r, Nil, SegRef_magnitude(r, ribs))
    /\ UNCHANGED <<point, ribs, overwritten, seg, segRefs, segmentRefs, segRefMuts>>

SegRefRibId(r) ==
    /\ r \in segRefs
    /\ last' = Call("SegRef::rib_id", r, Nil, SegRef_rib_id(r))
    /\ UNCHANGED <<point, ribs, overwritten, seg, segRefs, segmentRefs, segRefMuts>>

\* SegRef is Copy: the flipped view shares the borrow and r stays usable
SegRefFlip(r) ==
    /\ r \in segRefs
    /\ Cardinality(segRefs \cup {SegRef_flip(r)}) + Cardinality(segmentRefs) + Cardinality(segRefMuts) <= MaxRefs
    /\ segRefs' = segRefs \cup {SegRef_flip(r)}
    /\ last' = Call("SegRef::flip", r, Nil, SegRef_flip(r))
    /\ UNCHANGED <<point, ribs, overwritten, seg, segmentRefs, segRefMuts>>

SegRefSeg(r) ==
    /\ r \in segRefs
    /\ seg' = Some(SegRef_seg(r))
    /\ last' = Call("SegRef::seg", r, Nil, SegRef_seg(r))
    /\ UNCHANGED <<point, ribs, overwritten, segRefs, segmentRefs, segRefMuts>>

\* SegRef is Copy: un_ref takes a copy, r and its borrow stay
SegRefUnRef(r) ==
    /\ r \in segRefs
    /\ seg' = Some(SegRef_un_ref(r))
    /\ last' = Call("SegRef::un_ref", r, Nil, SegRef_un_ref(r))
    /\ UNCHANGED <<point, ribs, overwritten, segRefs, segmentRefs, segRefMuts>>

\* the SegRef goes out of scope
DropSegRef(r) ==
    /\ r \in segRefs
    /\ segRefs' = segRefs \ {r}
    /\ last' = Call("drop", r, Nil, Nil)
    /\ UNCHANGED <<point, ribs, overwritten, seg, segmentRefs, segRefMuts>>

(* SegRefMut *)

\* SegRefMut is not Copy: un_ref moves m, and its borrow ends
SegRefMutUnRef(m) ==
    /\ m \in segRefMuts
    /\ CanMove(m)
    /\ segRefMuts' = segRefMuts \ {m}
    /\ last' = Call("SegRefMut::un_ref", m, Nil, SegRefMut_un_ref(m))
    /\ UNCHANGED <<point, ribs, overwritten, seg, segRefs, segmentRefs>>

\* the SegRefMut goes out of scope, is used for the last time or has its
\* field `index` moved out: its borrow ends once nothing reborrowed through
\* it is alive (SegRefMut has no Drop impl)
DropSegRefMut(m) ==
    /\ m \in segRefMuts
    /\ ~ Reborrowed(m)
    /\ segRefMuts' = segRefMuts \ {m}
    /\ last' = Call("drop", m, Nil, Nil)
    /\ UNCHANGED <<point, ribs, overwritten, seg, segRefs, segmentRefs>>

(* SegmentRef *)

\* a panic of new leaves no SegmentRef
SegmentRefNew(from, to, index) ==
    /\ CanBorrowShared(index)
    /\ LET res == SegmentRef_new(from, to, index)
           made == IF IsOk(res) THEN {Val(res)} ELSE {}
       IN  /\ Cardinality(segRefs) + Cardinality(segmentRefs \cup made) + Cardinality(segRefMuts) <= MaxRefs
           /\ segmentRefs' = segmentRefs \cup made
           /\ last' = Call("SegmentRef::new", Nil, <<from, to, index>>, res)
    /\ UNCHANGED <<point, ribs, overwritten, seg, segRefs, segRefMuts>>

\* SegmentRef is Copy: the flipped view shares the borrow and s stays usable
SegmentRefFlip(s) ==
    /\ s \in segmentRefs
    /\ Cardinality(segRefs) + Cardinality(segmentRefs \cup {SegmentRef_flip(s)}) + Cardinality(segRefMuts) <= MaxRefs
    /\ segmentRefs' = segmentRefs \cup {SegmentRef_flip(s)}
    /\ last' = Call("SegmentRef::flip", s, Nil, SegmentRef_flip(s))
    /\ UNCHANGED <<point, ribs, overwritten, seg, segRefs, segRefMuts>>

SegmentRefFromPt(s) ==
    /\ s \in segmentRefs
    /\ last' = Call("SegmentRef::from_pt", s, Nil, SegmentRef_from_pt(s))
    /\ UNCHANGED <<point, ribs, overwritten, seg, segRefs, segmentRefs, segRefMuts>>

SegmentRefToPt(s) ==
    /\ s \in segmentRefs
    /\ last' = Call("SegmentRef::to_pt", s, Nil, SegmentRef_to_pt(s))
    /\ UNCHANGED <<point, ribs, overwritten, seg, segRefs, segmentRefs, segRefMuts>>

\* the SegmentRef goes out of scope
DropSegmentRef(s) ==
    /\ s \in segmentRefs
    /\ segmentRefs' = segmentRefs \ {s}
    /\ last' = Call("drop", s, Nil, Nil)
    /\ UNCHANGED <<point, ribs, overwritten, seg, segRefs, segRefMuts>>

Next ==
    \/ \E rid \in RibIds, rib \in Ribs(PtIds) : InsertRib(rid, rib)
    \/ \E rid \in RibIds : RemoveRib(rid)
    \/ \E rid \in RibIds, d \in SegmentDir : NewSeg(rid, d)
    \/ SegFlip
    \/ SegTo
    \/ SegFrom
    \/ \E index \in Borrows : SegToRef(index)
    \/ \E index \in Borrows : MakeRef(index)
    \/ \E index \in Borrows : MakeMutRef(index)
    \/ \E r \in segRefs : SegRefFromPt(r)
    \/ \E r \in segRefs : SegRefToPt(r)
    \/ \E r \in segRefs : SegRefFrom(r)
    \/ \E r \in segRefs : SegRefTo(r)
    \/ \E r \in segRefs : SegRefDir(r)
    \/ \E r \in segRefs, v \in PtIds : SegRefHas(r, v)
    \/ \E r \in segRefs : SegRefMagnitude(r)
    \/ \E r \in segRefs : SegRefRibId(r)
    \/ \E r \in segRefs : SegRefFlip(r)
    \/ \E r \in segRefs : SegRefSeg(r)
    \/ \E r \in segRefs : SegRefUnRef(r)
    \/ \E r \in segRefs : DropSegRef(r)
    \/ \E m \in segRefMuts : SegRefMutUnRef(m)
    \/ \E m \in segRefMuts : DropSegRefMut(m)
    \/ \E from \in PtIds, to \in PtIds, index \in Borrows : SegmentRefNew(from, to, index)
    \/ \E s \in segmentRefs : SegmentRefFlip(s)
    \/ \E s \in segmentRefs : SegmentRefFromPt(s)
    \/ \E s \in segmentRefs : SegmentRefToPt(s)
    \/ \E s \in segmentRefs : DropSegmentRef(s)

Spec == Init /\ [][Next]_vars

----------------------------------------------------------------------------
(* The geometric queries, over the grid of the vertex store *)

\* the segment from p to q has a rational length: normalize() is exact
HasLength(p, q) == p # q /\ RHasSqrt(VMagSq(VSub(get_point(q), get_point(p))))

\* the ribs the index of the intersection queries may hold: from the point
\* (0, 1, 0) to any other point, which a Seg reads in either direction
QueryRibs ==
    {rib \in Ribs(GridPtIds) : rib[1] = PtAt(0, 4, 0) /\ HasLength(rib[1], rib[2])}

\* the segments a SegmentRef may probe
Probes == {pq \in Ribs(GridPtIds) : HasLength(pq[1], pq[2])}

\* the SegmentRef of a probe from p to q
Probe(pq) == Val(SegmentRef_new(pq[1], pq[2], TheIndex))

\* an index holding one rib, a SegRef made of a Seg of it, and a probe
InitIntersect ==
    /\ \E rib \in QueryRibs : ribs = [r \in {1} |-> rib]
    /\ \E d \in SegmentDir :
          /\ seg = Some(Seg(1, d))
          /\ segRefs = {Seg_make_ref(Seg(1, d), TheIndex)}
    /\ \E pq \in Probes : segmentRefs = {Probe(pq)}
    /\ overwritten = NoRib
    /\ segRefMuts = {}
    /\ point = Nil
    /\ last = Call("init", Nil, Nil, Nil)

Intersect(s, r) ==
    /\ s \in segmentRefs
    /\ r \in segRefs
    /\ last' = Call("SegmentRef::get_intersection_params_seg_ref", s, r,
                    get_intersection_params_seg_ref(s, r, ribs))
    /\ UNCHANGED <<point, ribs, overwritten, seg, segRefs, segmentRefs, segRefMuts>>

NextIntersect ==
    \E s \in segmentRefs, r \in segRefs : Intersect(s, r)

SpecIntersect == InitIntersect /\ [][NextIntersect]_vars

\* an empty index (a SegmentRef needs no rib), a probe and a point
InitDistance ==
    /\ ribs = <<>>
    /\ overwritten = NoRib
    /\ seg = None
    /\ segRefs = {}
    /\ \E pq \in Probes : segmentRefs = {Probe(pq)}
    /\ segRefMuts = {}
    /\ point \in GridPtIds
    /\ last = Call("init", Nil, Nil, Nil)

\* s.distance_to_pt_squared(get_point(point))
Distance(s) ==
    /\ s \in segmentRefs
    /\ last' = Call("SegmentRef::distance_to_pt_squared", s, point,
                    distance_to_pt_squared(s, get_point(point)))
    /\ UNCHANGED <<point, ribs, overwritten, seg, segRefs, segmentRefs, segRefMuts>>

NextDistance ==
    \E s \in segmentRefs : Distance(s)

SpecDistance == InitDistance /\ [][NextDistance]_vars

----------------------------------------------------------------------------
(* Properties of the index specification Spec *)

SegRefLookups ==
    {"SegRef::from_pt", "SegRef::to_pt", "SegRef::from", "SegRef::to",
     "SegRef::dir", "SegRef::has", "SegRef::magnitude"}
SegLookups == {"Seg::from", "Seg::to"}

\* the rib stored under the identifier of x, a Seg or a SegRef
RibOf(x) == ribs[x.rib_id]
Stored(x) == x.rib_id \in DOMAIN ribs

\* the endpoints <<from, to>> that rib (p0, p1) has when read in direction d
Directed(rib, d) == IF d = Fow THEN <<rib[1], rib[2]>> ELSE <<rib[2], rib[1]>>

\* C1: a Forward traversal of a stored rib (p0, p1) resolves from = p0 and
\* to = p1, a Reverse traversal from = p1 and to = p0, through the index
\* (SegRef::from_pt / to_pt) and through a rib map (Seg::from / to) alike, so
\* the two paths agree on the same rib map.
C1_DirectedEndpoints ==
    /\ (last.op \in {"SegRef::from_pt", "Seg::from"} /\ Stored(last.self))
          => last.res = Ok(Directed(RibOf(last.self), last.self.dir)[1])
    /\ (last.op \in {"SegRef::to_pt", "Seg::to"} /\ Stored(last.self))
          => last.res = Ok(Directed(RibOf(last.self), last.self.dir)[2])
    /\ last.op = "Seg::from"
          => last.res = SegRef_from_pt(Seg_make_ref(last.self, TheIndex), ribs)
    /\ last.op = "Seg::to"
          => last.res = SegRef_to_pt(Seg_make_ref(last.self, TheIndex), ribs)

\* a Reverse SegRef of a stored rib has resolved its `to` to p0
C1_Witness ==
    /\ last.op = "SegRef::to_pt"
    /\ last.self.dir = Rev
    /\ Stored(last.self)
    /\ last.res = Ok(RibOf(last.self)[1])

\* C2: flip is a total involution without fixed point on the two directions,
\* and flipping a Seg, a SegRef or a SegmentRef twice gives the value back:
\* same identifiers, same direction or endpoint order, same index borrow.
C2_FlipInvolution ==
    /\ \A d \in SegmentDir :
          /\ SegmentDir_flip(d) \in SegmentDir
          /\ SegmentDir_flip(SegmentDir_flip(d)) = d
          /\ SegmentDir_flip(d) # d
    /\ last.op = "Seg::flip" => Seg_flip(last.res) = last.self
    /\ last.op = "SegRef::flip"
          => /\ SegRef_flip(last.res) = last.self
             /\ last.res.index = last.self.index
    /\ last.op = "SegmentRef::flip"
          => /\ SegmentRef_flip(last.res) = last.self
             /\ last.res.index = last.self.index
    /\ \A r \in segRefs : SegRef_flip(SegRef_flip(r)) = r
    /\ \A x \in segmentRefs : SegmentRef_flip(SegmentRef_flip(x)) = x

\* a SegRef has been flipped, and the flipped view differs from it
C2_Witness ==
    /\ last.op = "SegRef::flip"
    /\ last.res # last.self
    /\ last.res \in segRefs

\* C3: SegmentRef::new panics exactly when from = to and leaves a SegmentRef
\* otherwise; every SegmentRef alive, made by new or by flip, has
\* from_pt() # to_pt().
C3_SegmentRefDistinct ==
    /\ last.op = "SegmentRef::new"
          => /\ IsPanic(last.res) <=> last.arg[1] = last.arg[2]
             /\ IsOk(last.res)
                   => /\ Val(last.res) \in segmentRefs
                      /\ SegmentRef_from_pt(Val(last.res)) = last.arg[1]
                      /\ SegmentRef_to_pt(Val(last.res)) = last.arg[2]
    /\ \A x \in segmentRefs : SegmentRef_from_pt(x) # SegmentRef_to_pt(x)
    /\ last.op = "SegmentRef::flip"
          => SegmentRef_from_pt(last.res) # SegmentRef_to_pt(last.res)

\* new has been refused equal endpoints while a flipped SegmentRef is alive
C3_Witness ==
    /\ last.op = "SegmentRef::new"
    /\ last.arg[1] = last.arg[2]
    /\ IsPanic(last.res)
    /\ \E x \in segmentRefs : SegmentRef_flip(x) \in segmentRefs

\* C4: while a SegRefMut made by make_mut_ref is alive, no SegRef, no
\* SegmentRef and no second SegRefMut over the index is alive and every
\* attempt to obtain one is rejected; while none is alive, read-only
\* references can be obtained next to the live ones.
C4_AliasingAsClaimed ==
    /\ segRefMuts # {}
          => /\ segRefs = {}
             /\ segmentRefs = {}
             /\ Cardinality(segRefMuts) = 1
             /\ \A index \in Borrows :
                   /\ ~ ENABLED MakeRef(index)
                   /\ ~ ENABLED SegToRef(index)
                   /\ ~ ENABLED MakeMutRef(index)
                   /\ \A from \in PtIds, to \in PtIds :
                         ~ ENABLED SegmentRefNew(from, to, index)
    /\ (segRefs # {} \/ segmentRefs # {})
          => \A index \in Borrows : ~ ENABLED MakeMutRef(index)
    /\ (segRefMuts = {} /\ NumReaders < MaxRefs)
          => /\ IsSome(seg) => ENABLED MakeRef(TheIndex)
             /\ \A from \in PtIds, to \in PtIds :
                   from # to => ENABLED SegmentRefNew(from, to, TheIndex)

\* C4, amended: while a SegRefMut m is alive, every SegRef and SegmentRef
\* alive was reborrowed through the field `index` of m, every other SegRefMut
\* alive was reborrowed through m or m through it, and as long as a reference
\* reborrowed through m is alive, m can neither be consumed by un_ref nor
\* lend its index exclusively again; a borrow of the index itself is rejected
\* while any SegRefMut is alive, an exclusive borrow and a write of the index
\* are rejected while any read-only reference is alive; while no SegRefMut is
\* alive, read-only references can be obtained next to the live ones.
C4_Aliasing ==
    /\ \A m \in segRefMuts :
          /\ \A r \in segRefs : Through(r.index, m)
          /\ \A s \in segmentRefs : Through(s.index, m)
          /\ \A m2 \in segRefMuts \ {m} : Through(m2.index, m) \/ Through(m.index, m2)
          /\ Reborrowed(m)
                => /\ ~ ENABLED SegRefMutUnRef(m)
                   /\ ~ CanBorrowMut(Reborrow(m))
    /\ segRefMuts # {}
          => /\ ~ CanBorrowShared(TheIndex)
             /\ ~ CanBorrowMut(TheIndex)
             /\ ~ ENABLED MakeRef(TheIndex)
             /\ ~ ENABLED SegToRef(TheIndex)
             /\ ~ ENABLED MakeMutRef(TheIndex)
             /\ \A from \in PtIds, to \in PtIds :
                   ~ ENABLED SegmentRefNew(from, to, TheIndex)
    /\ (segRefs # {} \/ segmentRefs # {})
          => /\ \A index \in Borrows : ~ CanBorrowMut(index)
             /\ \A rid \in RibIds, rib \in Ribs(PtIds) : ~ ENABLED InsertRib(rid, rib)
             /\ \A rid \in RibIds : ~ ENABLED RemoveRib(rid)
    /\ (segRefMuts = {} /\ NumReaders < MaxRefs)
          => /\ IsSome(seg) => ENABLED MakeRef(TheIndex)
             /\ \A from \in PtIds, to \in PtIds :
                   from # to => ENABLED SegmentRefNew(from, to, TheIndex)

\* a SegRef reborrowed through a live SegRefMut has been used
C4_Witness ==
    /\ last.op = "SegRef::from_pt"
    /\ last.self \in segRefs
    /\ \E m \in segRefMuts : m.index = TheIndex /\ last.self.index = Reborrow(m)

\* a SegRef and a SegmentRef are alive together with no SegRefMut
C4_ReadersTogether == segRefs # {} /\ segmentRefs # {} /\ segRefMuts = {}

\* a second SegRefMut is alive, reborrowed through the first
C4_SecondMut ==
    \E m \in segRefMuts, m2 \in segRefMuts : m.index = TheIndex /\ m2.index = Reborrow(m)

\* a SegmentRef is alive, reborrowed through a live SegRefMut
C4_SegmentRefThroughMut ==
    \E m \in segRefMuts, s \in segmentRefs : s.index = Reborrow(m)

\* a SegRef has been used after its un_ref, which left it alive
C4_UsableAfterUnRef ==
    /\ last.op = "SegRef::from_pt"
    /\ IsSome(seg)
    /\ Unwrap(seg) = SegRef_un_ref(last.self)

\* C5: a lookup through a SegRef whose rib identifier is not in the index
\* (from_pt, to_pt, from, to, dir, has, magnitude), and Seg::from / Seg::to on
\* a rib map without it, panics and returns nothing, and the step of the
\* failed lookup leaves the rib storage as it was.
C5_DanglingPanics ==
    /\ [](((last.op \in SegRefLookups \cup SegLookups) /\ ~ Stored(last.self))
             => last.res = Panic)
    /\ [][((last'.op \in SegRefLookups \cup SegLookups) /\ IsPanic(last'.res))
             => ribs' = ribs]_vars

\* SegRef::has has panicked on a SegRef whose rib was removed from the index
C5_Witness ==
    /\ last.op = "SegRef::has"
    /\ ~ Stored(last.self)
    /\ last.res = Panic
    /\ overwritten # NoRib
    /\ overwritten[1] = last.self.rib_id

\* C9: a SegRef carries the rib identifier, the direction and the borrow
\* only, and after the index was written, from_pt() and to_pt() of a SegRef
\* made of the same Seg resolve to the endpoints the index holds at the time
\* of the query (or panic if it holds none), not to the replaced ones.
C9_NoStaleGeometry ==
    /\ \A r \in segRefs : DOMAIN r = {"rib_id", "dir", "index"}
    /\ last.op \in {"Seg::make_ref", "Seg::to_ref"}
          => last.res = [rib_id |-> last.self.rib_id, dir |-> last.self.dir,
                         index |-> last.arg]
    /\ (last.op = "SegRef::from_pt" /\ overwritten # NoRib
            /\ overwritten[1] = last.self.rib_id)
          => last.res = IF Stored(last.self)
                        THEN Ok(Directed(RibOf(last.self), last.self.dir)[1])
                        ELSE Panic
    /\ (last.op = "SegRef::to_pt" /\ overwritten # NoRib
            /\ overwritten[1] = last.self.rib_id)
          => last.res = IF Stored(last.self)
                        THEN Ok(Directed(RibOf(last.self), last.self.dir)[2])
                        ELSE Panic

\* the rib of the held Seg was replaced by one with other endpoints, and a
\* SegRef made of the Seg has resolved its `from` to the new endpoint
C9_Witness ==
    /\ last.op = "SegRef::from_pt"
    /\ IsSome(seg)
    /\ last.self = Seg_make_ref(Unwrap(seg), TheIndex)
    /\ overwritten # NoRib
    /\ overwritten[1] = last.self.rib_id
    /\ Stored(last.self)
    /\ last.res = Ok(Directed(RibOf(last.self), last.self.dir)[1])
    /\ last.res # Ok(Directed(overwritten[2], last.self.dir)[1])

\* the calls of the collaborators that own the rib storage
IndexWrites == {"insert_rib", "remove_rib"}

\* C10: the flip of a Seg or a SegRef has the same rib identifier and the
\* opposite direction, its resolved endpoints are those of the original
\* exchanged, and no step other than a collaborator's write of the index
\* (so no flip, seg, un_ref, make_ref or lookup) changes the rib storage.
C10_FlipOnlyDirection ==
    /\ [](/\ last.op \in {"Seg::flip", "SegRef::flip"}
                => /\ last.res.rib_id = last.self.rib_id
                   /\ last.res.dir # last.self.dir
                   /\ last.res.dir \in SegmentDir
          /\ last.op = "SegRef::flip"
                => /\ SegRef_from_pt(last.res, ribs) = SegRef_to_pt(last.self, ribs)
                   /\ SegRef_to_pt(last.res, ribs) = SegRef_from_pt(last.self, ribs)
          /\ last.op = "Seg::flip"
                => /\ Seg_from(last.res, ribs) = Seg_to(last.self, ribs)
                   /\ Seg_to(last.res, ribs) = Seg_from(last.self, ribs))
    /\ [][last'.op \notin IndexWrites => ribs' = ribs]_vars

\* a SegRef of a stored rib has been flipped, and the endpoints are exchanged
C10_Witness ==
    /\ last.op = "SegRef::flip"
    /\ Stored(last.self)
    /\ ribs # <<>>
    /\ SegRef_from_pt(last.res, ribs) = Ok(Directed(RibOf(last.self), last.self.dir)[2])
    /\ SegRef_to_pt(last.res, ribs) = Ok(Directed(RibOf(last.self), last.self.dir)[1])

----------------------------------------------------------------------------
(* Properties of the geometric specifications *)

VZero == <<RZero, RZero, RZero>>

\* a is within the tolerance vertex_pulling of b
Within(a, b) == ~ RLt(RMul(vertex_pulling, vertex_pulling), VMagSq(VSub(a, b)))

\* the lines from1 + u * dir1 and from2 + w * dir2 are parallel or anti-parallel
Parallel(dir1, dir2) == VCross(dir1, dir2) = VZero

\* the parameters <<u, w>> of the points where two lines that are not parallel
\* come closest, each on the scale of its own direction vector
Closest(from1, dir1, from2, dir2) ==
    LET c == VCross(dir1, dir2)
        cc == VMagSq(c)
        d == VSub(from2, from1)
    IN  << RDiv(VDot(VCross(d, dir2), c), cc), RDiv(VDot(VCross(d, dir1), c), cc) >>

\* the lines meet in one point
Meet(from1, dir1, from2, dir2) ==
    /\ ~ Parallel(dir1, dir2)
    /\ LET uw == Closest(from1, dir1, from2, dir2)
       IN  VAdd(from1, VScale(dir1, uw[1])) = VAdd(from2, VScale(dir2, uw[2]))

IsIntersect == last.op = "SegmentRef::get_intersection_params_seg_ref"
SelfFrom == SegmentRef_from(last.self)
SelfDir == SegmentRef_dir(last.self)
OtherFrom == Val(SegRef_from(last.arg, ribs))
OtherDir == Val(SegRef_dir(last.arg, ribs))
\* the point where the two lines meet
MeetingPoint ==
    VAdd(SelfFrom, VScale(SelfDir, Closest(SelfFrom, SelfDir, OtherFrom, OtherDir)[1]))

\* C6: when self and other are not parallel and their lines meet in one point
\* X, the result is Some((f, g)) with fromSelf + f * (toSelf - fromSelf) = X
\* and fromOther + g * (toOther - fromOther) = X within the tolerance, for a
\* self of any length.
C6_MeetingLinesGiveParams ==
    (IsIntersect /\ Meet(SelfFrom, SelfDir, OtherFrom, OtherDir))
       => /\ IsOk(last.res)
          /\ IsSome(Val(last.res))
          /\ LET fg == Unwrap(Val(last.res))
             IN  /\ Within(VAdd(SelfFrom, VScale(SelfDir, fg[1])), MeetingPoint)
                 /\ Within(VAdd(OtherFrom, VScale(OtherDir, fg[2])), MeetingPoint)

\* C7: for parallel and anti-parallel segments, collinear overlapping ones
\* included, the result is None: an ordinary value, not a panic.
C7_ParallelGivesNone ==
    (IsIntersect /\ Parallel(SelfDir, OtherDir)) => last.res = Ok(None)

\* the query of two collinear segments that overlap (the origin of each lies
\* on the other) has returned None
C7_Witness ==
    /\ IsIntersect
    /\ Parallel(SelfDir, OtherDir)
    /\ Parallel(VSub(OtherFrom, SelfFrom), SelfDir)
    /\ SelfFrom = OtherFrom
    /\ last.res = Ok(None)

\* self (0,0,0) -> (1,0,0) and other (0,1,0) -> (1,1,0): the result is None
C7_ParallelExample ==
    /\ IsIntersect
    /\ last.self.from = PtAt(0, 2, 0)
    /\ last.self.to = PtAt(2, 2, 0)
    /\ SegRef_from_pt(last.arg, ribs) = Ok(PtAt(0, 4, 0))
    /\ SegRef_to_pt(last.arg, ribs) = Ok(PtAt(2, 4, 0))
    /\ last.res = Ok(None)

IsDistance == last.op = "SegmentRef::distance_to_pt_squared"

\* the squared distance of p to the line through from with direction dir
LineDistSq(from, dir, p) ==
    RDiv(VMagSq(VCross(VSub(p, from), dir)), VMagSq(dir))

\* C8: the distance of from() is 0, the distance of a point is the same for
\* the flipped SegmentRef, and it is the squared distance to the whole line
\* through the segment (not clamped to the endpoints).
C8_LineDistance ==
    IsDistance
       => /\ point = SegmentRef_from_pt(last.self) => last.res = RZero
          /\ last.res = distance_to_pt_squared(SegmentRef_flip(last.self), get_point(point))
          /\ last.res = LineDistSq(SegmentRef_from(last.self), SegmentRef_dir(last.self),
                                   get_point(point))

\* the segment (0,0,0) -> (2,0,0) and the point (1,1,0): the distance is 1
C8_Witness ==
    /\ IsDistance
    /\ last.self.from = PtAt(0, 2, 0)
    /\ last.self.to = PtAt(4, 2, 0)
    /\ point = PtAt(2, 4, 0)
    /\ last.res = ROne

====
